---- MODULE Spec2Model ----
(***************************************************************************)
(* Utility billing application (src/app.py): customers, usage records with *)
(* an anomaly flag, and bills, kept in a relational store with unique      *)
(* constraints and served by request handlers.                             *)
(*                                                                         *)
(* Numbers.  The code computes in binary floating point; the model uses    *)
(* exact decimal fixed point:                                              *)
(*   usage_value    in tenths of a unit        (19.6 kWh  is 196)          *)
(*   rate_per_unit  in thousandths of a dollar (0.16 $/kWh is 160)         *)
(*   base_fee, total_amount in cents           (8.00 $    is 800)          *)
(* Strings taken from forms are sequences of one-character strings, so     *)
(* that len(), indexing, strip() and the store's bytewise ordering can be  *)
(* computed as the code computes them.                                     *)
(* The surrogate columns id and created_at are not modelled: no handler    *)
(* reads them.                                                             *)
(***************************************************************************)
EXTENDS Integers, Sequences, FiniteSets, TLC

VARIABLES
    customers,   \* ids of the rows of table customers
    usage,       \* rows of table usage_records
    bills,       \* rows of table bills
    pc,          \* per request thread: where its current request stands
    local,       \* per request thread: the row its handler is about to insert
    resp,        \* per request thread: the response of the finished request
    ev           \* one call of the anomaly rule on explicit inputs

vars == <<customers, usage, bills, pc, local, resp, ev>>

----------------------------------------------------------------------------
(* Bounds of the model *)

MaxCustomers == 1      \* customers that can be created
MaxHist == 6           \* longest history handed to the rule on explicit inputs

(* Program constants *)

MinHistory == 5        \* len(history) < 5
MonthLen == 7          \* len(month) != 7
DashIndex == 5         \* month[4], counted from 1

Workers == {"w1", "w2"}

----------------------------------------------------------------------------
(* Strings *)

Chr == <<" ", "-", "/", "0", "1", "2", "3", "4", "5", "6", "7", "8", "9",
         "A", "a", "b", "c", "d", "e", "f", "n">>
Ord == <<32, 45, 47, 48, 49, 50, 51, 52, 53, 54, 55, 56, 57,
         65, 97, 98, 99, 100, 101, 102, 110>>

CharCode(ch) == Ord[CHOOSE i \in 1..Len(Chr) : Chr[i] = ch]

RECURSIVE LStrip(_)
LStrip(s) == IF s # <<>> /\ Head(s) = " " THEN LStrip(Tail(s)) ELSE s

RECURSIVE RStrip(_)
RStrip(s) ==
    IF s # <<>> /\ s[Len(s)] = " " THEN RStrip(SubSeq(s, 1, Len(s) - 1)) ELSE s

Strip(s) == RStrip(LStrip(s))

\* bytewise order of two strings, as ORDER BY month ASC compares them
RECURSIVE StrLess(_, _)
StrLess(a, b) ==
    IF b = <<>> THEN FALSE
    ELSE IF a = <<>> THEN TRUE
    ELSE IF Head(a) # Head(b) THEN CharCode(Head(a)) < CharCode(Head(b))
    ELSE StrLess(Tail(a), Tail(b))

----------------------------------------------------------------------------
(* Rate schedule *)

DEFAULT_RATES ==
    [electric |-> [rate_per_unit |-> 160, base_fee |-> 800],
     water    |-> [rate_per_unit |-> 5, base_fee |-> 1000],
     gas      |-> [rate_per_unit |-> 1200, base_fee |-> 1200]]

\* round(x, 2) of x given in 1/10000 dollar.  A value that is not halfway
\* between two cents goes to the nearer cent.  A decimal halfway value has no
\* exact binary representation in general, and round() then follows the
\* double nearest to it, which lies above or below the half: both cents are
\* outcomes of the code.
Round2(x) ==
    LET q == x \div 100
        r == x % 100
    IN  IF r < 50 THEN {q} ELSE IF r > 50 THEN {q + 1} ELSE {q, q + 1}

\* calculate_bill without the base fee
calculate_bill_NoBaseFee(usage_value, rate_per_unit, base_fee) ==
    Round2(usage_value * rate_per_unit)

calculate_bill(usage_value, rate_per_unit, base_fee) ==
    Round2(base_fee * 100 + usage_value * rate_per_unit)

----------------------------------------------------------------------------
(* Anomaly rule *)

RECURSIVE SumSeq(_)
SumSeq(s) == IF s = <<>> THEN 0 ELSE Head(s) + SumSeq(Tail(s))

\* floor of the square root of n, by bisection on lo <= sqrt(n) < hi
RECURSIVE SqrtBetween(_, _, _)
SqrtBetween(n, lo, hi) ==
    IF hi - lo <= 1 THEN lo
    ELSE LET mid == (lo + hi) \div 2
         IN  IF mid * mid <= n THEN SqrtBetween(n, mid, hi)
             ELSE SqrtBetween(n, lo, mid)

SqrtFloor(n) == SqrtBetween(n, 0, 46341)

\* The body of compute_anomaly_flag after the query, on vals = the usage
\* values of the history.  With N = len(vals), every quantity is kept as an
\* integer by scaling with N:
\*   sum_vals = N * mean,  dev[i] = N * (x - mean),
\*   var_n2 = N^2 * var,   two_std_n = floor(N * 2 * std).
\* N * new_value is an integer, so it exceeds N * threshold exactly when it
\* exceeds the floor of N * threshold.
\* AnomalyRule(vals, new_value) is defined below; before it, the rule with the
\* sample variance (divisor N - 1), with >= on a constant history, and without
\* the minimum of 5 values.
AnomalyRule_SampleStd(vals, new_value) ==
    LET n == Len(vals)
        sum_vals == SumSeq(vals)
        sq == [i \in 1..n |-> (n * vals[i] - sum_vals) * (n * vals[i] - sum_vals)]
        var_n2 == SumSeq(sq) \div (n - 1)
        two_std_n == SqrtFloor(4 * var_n2)
    IN  IF n < MinHistory THEN FALSE
        ELSE IF var_n2 > 0 THEN n * new_value > sum_vals + two_std_n
        ELSE n * new_value > sum_vals

AnomalyRule_GreaterEqual(vals, new_value) ==
    LET n == Len(vals)
        sum_vals == SumSeq(vals)
        sq == [i \in 1..n |-> (n * vals[i] - sum_vals) * (n * vals[i] - sum_vals)]
        var_n2 == SumSeq(sq) \div n
        two_std_n == SqrtFloor(4 * var_n2)
    IN  IF n < MinHistory THEN FALSE
        ELSE IF var_n2 > 0 THEN n * new_value > sum_vals + two_std_n
        ELSE n * new_value >= sum_vals

AnomalyRule_NoMinimum(vals, new_value) ==
    LET n == Len(vals)
        sum_vals == SumSeq(vals)
        sq == [i \in 1..n |-> (n * vals[i] - sum_vals) * (n * vals[i] - sum_vals)]
        var_n2 == IF n = 0 THEN 0 ELSE SumSeq(sq) \div n
        two_std_n == SqrtFloor(4 * var_n2)
    IN  IF var_n2 > 0 THEN n * new_value > sum_vals + two_std_n
        ELSE n * new_value > sum_vals

AnomalyRule(vals, new_value) ==
    LET n == Len(vals)
        sum_vals == SumSeq(vals)
        sq == [i \in 1..n |-> (n * vals[i] - sum_vals) * (n * vals[i] - sum_vals)]
        var_n2 == SumSeq(sq) \div n
        two_std_n == SqrtFloor(4 * var_n2)
    IN  IF n < MinHistory THEN FALSE
        ELSE IF var_n2 > 0 THEN n * new_value > sum_vals + two_std_n
        ELSE n * new_value > sum_vals

----------------------------------------------------------------------------
(* Store *)

UsageKey(r) == <<r.customer_id, r.month, r.utility_type>>

\* a unique constraint over every column of usage_records
UsageConflict_WholeRow(rec) == rec \in usage

\* uq_usage_customer_month_type: the insert of rec violates the constraint
UsageConflict(rec) == \E r \in usage : UsageKey(r) = UsageKey(rec)

\* table bills without a unique constraint
BillConflict_Never(bill) == FALSE

\* uq_bill_customer_month_type: the insert of bill violates the constraint
BillConflict(bill) == \E b \in bills : UsageKey(b) = UsageKey(bill)

RECURSIVE SortByMonth(_)
SortByMonth(S) ==
    IF S = {} THEN <<>>
    ELSE LET r == CHOOSE x \in S : \A y \in S : ~StrLess(y.month, x.month)
         IN  <<r>> \o SortByMonth(S \ {r})

\* UsageRecord.query.filter_by(customer_id, utility_type).order_by(month.asc()).all()
History(customer_id, utility_type) ==
    SortByMonth({r \in usage : r.customer_id = customer_id
                               /\ r.utility_type = utility_type})

compute_anomaly_flag(customer_id, utility_type, new_value) ==
    LET history == History(customer_id, utility_type)
        vals == [i \in 1..Len(history) |-> history[i].usage_value]
    IN  AnomalyRule(vals, new_value)

----------------------------------------------------------------------------
(* Requests and responses *)

NoRow == [table |-> "none"]

NoFlash == [category |-> "", message |-> ""]
NoResp == [status |-> 0, flash |-> NoFlash]
NotFound == [status |-> 404, flash |-> NoFlash]

Redirect(category, message) ==
    [status |-> 302, flash |-> [category |-> category, message |-> message]]

FlashNameRequired == Redirect("danger", "Customer name is required.")
FlashCustomerAdded == Redirect("success", "Customer added.")
FlashMonthFormat ==
    Redirect("danger", "Month must be in YYYY-MM format (example: 2026-01).")
FlashUsageValue == Redirect("danger", "Usage value must be a non-negative number.")
FlashUtilityType == Redirect("danger", "Invalid utility type.")
FlashAnomaly ==
    Redirect("warning", "This usage looks abnormal (flagged as an anomaly).")
FlashUsageAdded == Redirect("success", "Usage record added.")
FlashUsageExists ==
    Redirect("danger",
             "That usage record already exists for that month/type (or another DB error occurred).")
FlashNoUsage == Redirect("danger", "No usage record found for that month/type.")
FlashBillGenerated == Redirect("success", "Bill generated.")
FlashBillExists ==
    Redirect("danger",
             "Bill already exists for that month/type (or another DB error occurred).")
\* DEFAULT_RATES[utility_type] raises KeyError: the request aborts
ServerError == [status |-> 500, flash |-> NoFlash]

\* a form field holding text: float() accepts it or raises ValueError
Numeric(n) == [numeric |-> TRUE, value |-> n]
NotNumeric == [numeric |-> FALSE, value |-> 0]

\* the handler returns response r; the row it worked on stays in its frame
\* until the response has been delivered
Finish(p, r) ==
    /\ pc' = [pc EXCEPT ![p] = "done"]
    /\ resp' = [resp EXCEPT ![p] = r]
    /\ UNCHANGED local

----------------------------------------------------------------------------
(* Handlers *)

\* POST /customers
AddCustomer(p, full_name_in) ==
    /\ pc[p] = "idle"
    /\ LET full_name == Strip(full_name_in)
       IN  IF full_name = <<>>
           THEN /\ Finish(p, FlashNameRequired)
                /\ UNCHANGED customers
           ELSE /\ Cardinality(customers) < MaxCustomers
                /\ customers' = customers \cup {Cardinality(customers) + 1}
                /\ Finish(p, FlashCustomerAdded)
    /\ UNCHANGED <<usage, bills, ev>>

\* POST /customers/<id>/usage, up to and including compute_anomaly_flag
AddUsageRead(p, customer_id, month_in, utility_type, usage_value_raw) ==
    /\ pc[p] = "idle"
    /\ LET month == Strip(month_in)
       IN  IF customer_id \notin customers
           THEN Finish(p, NotFound)
           ELSE IF Len(month) # MonthLen \/ month[DashIndex] # "-"
           THEN Finish(p, FlashMonthFormat)
           ELSE IF ~usage_value_raw.numeric \/ usage_value_raw.value < 0
           THEN Finish(p, FlashUsageValue)
           ELSE IF utility_type \notin DOMAIN DEFAULT_RATES
           THEN Finish(p, FlashUtilityType)
           ELSE /\ pc' = [pc EXCEPT ![p] = "add_insert"]
                /\ local' = [local EXCEPT ![p] =
                       [table |-> "usage_records",
                        customer_id |-> customer_id,
                        month |-> month,
                        utility_type |-> utility_type,
                        usage_value |-> usage_value_raw.value,
                        is_anomaly |-> compute_anomaly_flag(customer_id, utility_type,
                                                            usage_value_raw.value)]]
                /\ UNCHANGED resp
    /\ UNCHANGED <<customers, usage, bills, ev>>

UsageRow(l) ==
    [customer_id |-> l.customer_id, month |-> l.month,
     utility_type |-> l.utility_type, usage_value |-> l.usage_value,
     is_anomaly |-> l.is_anomaly]

\* add_usage with an insert-or-replace in place of the constrained insert
AddUsageInsert_Upsert(p) ==
    /\ pc[p] = "add_insert"
    /\ LET record == UsageRow(local[p])
       IN  /\ usage' = {r \in usage : UsageKey(r) # UsageKey(record)} \cup {record}
           /\ Finish(p, IF record.is_anomaly THEN FlashAnomaly ELSE FlashUsageAdded)
    /\ UNCHANGED <<customers, bills, ev>>

\* add_usage: db.session.add(record); db.session.commit() and its except branch
AddUsageInsert(p) ==
    /\ pc[p] = "add_insert"
    /\ LET record == UsageRow(local[p])
       IN  IF UsageConflict(record)
           THEN /\ UNCHANGED usage
                /\ Finish(p, FlashUsageExists)
           ELSE /\ usage' = usage \cup {record}
                /\ Finish(p, IF record.is_anomaly THEN FlashAnomaly ELSE FlashUsageAdded)
    /\ UNCHANGED <<customers, bills, ev>>

\* generate_bill without the lookup of the usage record
GenerateBillRead_NoLookup(p, customer_id, month_in, utility_type) ==
    /\ pc[p] = "idle"
    /\ LET month == Strip(month_in)
       IN  IF customer_id \notin customers
           THEN Finish(p, NotFound)
           ELSE IF utility_type \notin DOMAIN DEFAULT_RATES
           THEN Finish(p, ServerError)
           ELSE LET rate_info == DEFAULT_RATES[utility_type]
                IN  \E total \in calculate_bill(0, rate_info.rate_per_unit,
                                                rate_info.base_fee) :
                        /\ pc' = [pc EXCEPT ![p] = "bill_insert"]
                        /\ local' = [local EXCEPT ![p] =
                               [table |-> "bills",
                                customer_id |-> customer_id,
                                month |-> month,
                                utility_type |-> utility_type,
                                usage_value |-> 0,
                                rate_per_unit |-> rate_info.rate_per_unit,
                                base_fee |-> rate_info.base_fee,
                                total_amount |-> total]]
                        /\ UNCHANGED resp
    /\ UNCHANGED <<customers, usage, bills, ev>>

\* POST /customers/<id>/generate_bill, up to the construction of the Bill
GenerateBillRead(p, customer_id, month_in, utility_type) ==
    /\ pc[p] = "idle"
    /\ LET month == Strip(month_in)
           found == {r \in usage : UsageKey(r) = <<customer_id, month, utility_type>>}
       IN  IF customer_id \notin customers
           THEN Finish(p, NotFound)
           ELSE IF found = {}
           THEN Finish(p, FlashNoUsage)
           ELSE IF utility_type \notin DOMAIN DEFAULT_RATES
           THEN Finish(p, ServerError)
           ELSE LET rate_info == DEFAULT_RATES[utility_type]
                IN  \E record \in found :
                    \E total \in calculate_bill(record.usage_value,
                                                rate_info.rate_per_unit,
                                                rate_info.base_fee) :
                        /\ pc' = [pc EXCEPT ![p] = "bill_insert"]
                        /\ local' = [local EXCEPT ![p] =
                               [table |-> "bills",
                                customer_id |-> customer_id,
                                month |-> month,
                                utility_type |-> utility_type,
                                usage_value |-> record.usage_value,
                                rate_per_unit |-> rate_info.rate_per_unit,
                                base_fee |-> rate_info.base_fee,
                                total_amount |-> total]]
                        /\ UNCHANGED resp
    /\ UNCHANGED <<customers, usage, bills, ev>>

BillRow(l) ==
    [customer_id |-> l.customer_id, month |-> l.month,
     utility_type |-> l.utility_type, usage_value |-> l.usage_value,
     rate_per_unit |-> l.rate_per_unit, base_fee |-> l.base_fee,
     total_amount |-> l.total_amount]

\* generate_bill: db.session.add(bill); db.session.commit() and its except branch
GenerateBillInsert(p) ==
    /\ pc[p] = "bill_insert"
    /\ LET bill == BillRow(local[p])
       IN  IF BillConflict(bill)
           THEN /\ UNCHANGED bills
                /\ Finish(p, FlashBillExists)
           ELSE /\ bills' = bills \cup {bill}
                /\ Finish(p, FlashBillGenerated)
    /\ UNCHANGED <<customers, usage, ev>>

\* the redirect is followed: the page renders the flashed message, which
\* consumes it, and the thread is free for the next request
Respond(p) ==
    /\ pc[p] = "done"
    /\ pc' = [pc EXCEPT ![p] = "idle"]
    /\ resp' = [resp EXCEPT ![p] = NoResp]
    /\ local' = [local EXCEPT ![p] = NoRow]
    /\ UNCHANGED <<customers, usage, bills, ev>>

----------------------------------------------------------------------------
(* Inputs *)

NameInputs == {<<>>, <<" ">>, <<"A", "n", "n">>}

Jan == <<"2", "0", "2", "6", "-", "0", "1">>
Feb == <<"2", "0", "2", "6", "-", "0", "2">>
Mar == <<"2", "0", "2", "6", "-", "0", "3">>
Apr == <<"2", "0", "2", "6", "-", "0", "4">>
May == <<"2", "0", "2", "6", "-", "0", "5">>
Jun == <<"2", "0", "2", "6", "-", "0", "6">>
JanPadded == <<" ">> \o Jan \o <<" ">>
ShortMonth == <<"2", "0", "2", "6", "-", "1">>
SlashMonth == <<"2", "0", "2", "6", "/", "0", "1">>
LetterMonth == <<"a", "b", "c", "d", "-", "e", "f">>

NoEval == [phase |-> "none", vals |-> <<>>, new_value |-> 0, flag |-> FALSE]

Init ==
    /\ customers = {}
    /\ usage = {}
    /\ bills = {}
    /\ pc = [p \in Workers |-> "idle"]
    /\ local = [p \in Workers |-> NoRow]
    /\ resp = [p \in Workers |-> NoResp]
    /\ ev = NoEval

\* Two request threads racing on one month; the forms that fail validation
\* other than by the month are left to NextForm.
Next ==
    \E p \in Workers :
        \/ \E n \in NameInputs : AddCustomer(p, n)
        \/ \E c \in 1..MaxCustomers, m \in {Jan, ShortMonth},
              u \in {"electric", "water"},
              v \in {Numeric(0), Numeric(1000)} :
                AddUsageRead(p, c, m, u, v)
        \/ AddUsageInsert(p)
        \/ \E c \in 1..MaxCustomers, m \in {Jan},
              u \in {"electric", "water", "solar"} :
                GenerateBillRead(p, c, m, u)
        \/ GenerateBillInsert(p)
        \/ Respond(p)

Spec == Init /\ [][Next]_vars

\* One request at a time, every kind of form input.
NextForm ==
    \/ \E n \in NameInputs : AddCustomer("w1", n)
    \/ \E c \in 1..MaxCustomers,
          m \in {Jan, JanPadded, ShortMonth, SlashMonth, LetterMonth},
          u \in {"electric", "water", "gas", "solar"},
          v \in {Numeric(0), Numeric(1000), Numeric(-10), NotNumeric} :
            AddUsageRead("w1", c, m, u, v)
    \/ AddUsageInsert("w1")
    \/ Respond("w1")

SpecForm == Init /\ [][NextForm]_vars

\* One request at a time, one month, every utility type, usage values whose
\* charge is a whole number of cents, is rounded down, is rounded up, and
\* lies halfway between two cents.
NextBill ==
    \/ AddCustomer("w1", <<"A", "n", "n">>)
    \/ \E u \in {"electric", "water", "gas"},
          v \in {Numeric(0), Numeric(3), Numeric(10), Numeric(196), Numeric(1000)} :
            AddUsageRead("w1", 1, Jan, u, v)
    \/ AddUsageInsert("w1")
    \/ \E m \in {Jan, Feb}, u \in {"electric", "water", "gas", "solar"} :
            GenerateBillRead("w1", 1, m, u)
    \/ GenerateBillInsert("w1")
    \/ Respond("w1")

SpecBill == Init /\ [][NextBill]_vars

\* One request at a time, six months of one utility submitted in any order.
NextHist ==
    \/ AddCustomer("w1", <<"A", "n", "n">>)
    \/ \E m \in {Jan, Feb, Mar, Apr, May, Jun}, v \in {Numeric(100), Numeric(110)} :
            AddUsageRead("w1", 1, m, "electric", v)
    \/ AddUsageInsert("w1")
    \/ GenerateBillRead("w1", 1, Jan, "electric")
    \/ GenerateBillInsert("w1")
    \/ Respond("w1")

SpecHist == Init /\ [][NextHist]_vars

\* The anomaly rule on explicit inputs.
HistValues == {100, 120, 140, 160, 180}
NewValues == {100, 101, 140, 196, 200}

Evaluate ==
    /\ ev.phase = "call"
    /\ ev' = [ev EXCEPT !.phase = "ret", !.flag = AnomalyRule(ev.vals, ev.new_value)]
    /\ UNCHANGED <<customers, usage, bills, pc, local, resp>>

InitEval ==
    /\ customers = {}
    /\ usage = {}
    /\ bills = {}
    /\ pc = [p \in Workers |-> "idle"]
    /\ local = [p \in Workers |-> NoRow]
    /\ resp = [p \in Workers |-> NoResp]
    /\ \E n \in 0..MaxHist : \E h \in [1..n -> HistValues] : \E x \in NewValues :
           ev = [phase |-> "call", vals |-> h, new_value |-> x, flag |-> FALSE]

NextEval == Evaluate

SpecEval == InitEval /\ [][NextEval]_vars

----------------------------------------------------------------------------
(* Properties *)

Group(S, customer_id, utility_type) ==
    {r \in S : r.customer_id = customer_id /\ r.utility_type = utility_type}

ValuesOf(S) ==
    LET h == SortByMonth(S) IN [i \in 1..Len(h) |-> h[i].usage_value]

HasKey(S, k) == \E r \in S : UsageKey(r) = k

UniqueKeys(S) == \A r1, r2 \in S : UsageKey(r1) = UsageKey(r2) => r1 = r2

Min(a, b) == IF a < b THEN a ELSE b

\* C1: the flag stored on every usage record is the threshold rule evaluated
\* over the records of the same customer and utility type whose month is
\* strictly earlier than the record's month, and over no others.
C1_FlagFromEarlierMonthsOnly ==
    \A r \in usage :
        r.is_anomaly =
            AnomalyRule(ValuesOf({q \in Group(usage, r.customer_id, r.utility_type) :
                                      StrLess(q.month, r.month)}),
                        r.usage_value)

\* C2: a flag computed while fewer than 5 records of the customer and
\* utility type are stored is false, so of the records stored for a customer
\* and utility type at least the first five (all of them, when there are
\* fewer) carry is_anomaly = FALSE.
C2_FirstFiveNeverFlagged ==
    /\ \A p \in Workers :
           pc[p] = "add_insert"
           /\ Cardinality(Group(usage, local[p].customer_id, local[p].utility_type))
                  < MinHistory
           => ~local[p].is_anomaly
    /\ \A r \in usage :
           LET g == Group(usage, r.customer_id, r.utility_type)
           IN  Cardinality({q \in g : ~q.is_anomaly}) >= Min(MinHistory, Cardinality(g))

C2_Witness ==
    \E r \in usage :
        /\ r.is_anomaly
        /\ Cardinality({q \in Group(usage, r.customer_id, r.utility_type) :
                            ~q.is_anomaly}) = MinHistory

\* Population statistics of a history, stated without a square root:
\* N * sum of squares - (sum)^2 = N^2 * variance.
SumOfSquares(vals) == SumSeq([i \in 1..Len(vals) |-> vals[i] * vals[i]])
VarianceN2(vals) == Len(vals) * SumOfSquares(vals) - SumSeq(vals) * SumSeq(vals)
AllEqual(vals) == \A i, j \in 1..Len(vals) : vals[i] = vals[j]

\* C3: for a history of at least 5 values that are not all equal, the rule
\* returns true exactly when new_value > mu + 2 * sigma, with mu and sigma the
\* population mean and standard deviation of the history alone: that is,
\* when new_value - mu > 0 and (new_value - mu)^2 > 4 * sigma^2.  For the
\* history 10, 12, 14, 16, 18 it returns false for 19.6 and true for 20.
C3_ThresholdRule ==
    ev.phase = "ret" /\ Len(ev.vals) >= 5 /\ ~AllEqual(ev.vals) =>
        LET n == Len(ev.vals)
            d == n * ev.new_value - SumSeq(ev.vals)
        IN  /\ VarianceN2(ev.vals) > 0
            /\ ev.flag = (d > 0 /\ d * d > 4 * VarianceN2(ev.vals))
            /\ ev.vals = <<100, 120, 140, 160, 180>> /\ ev.new_value = 196 => ~ev.flag
            /\ ev.vals = <<100, 120, 140, 160, 180>> /\ ev.new_value = 200 => ev.flag

C3_Witness ==
    /\ ev.phase = "ret"
    /\ ev.vals = <<100, 120, 140, 160, 180>>
    /\ ev.new_value = 200
    /\ ev.flag

\* C4: for a history of at least 5 values all equal to v, the rule returns
\* true exactly when new_value > v.
C4_ConstantHistory ==
    ev.phase = "ret" /\ Len(ev.vals) >= 5 /\ AllEqual(ev.vals) =>
        ev.flag = (ev.new_value > ev.vals[1])

C4_Witness ==
    /\ ev.phase = "ret"
    /\ Len(ev.vals) >= 5
    /\ AllEqual(ev.vals)
    /\ ev.new_value = ev.vals[1] + 1
    /\ ev.flag

\* C5: the store never holds two usage records with one (customer, month,
\* utility type), and an add_usage insert for a key that already has a
\* record is answered with the duplicate-entry message and changes neither
\* table.
C5_DuplicateUsageRejected ==
    [][/\ UniqueKeys(usage')
       /\ \A p \in Workers :
              pc[p] = "add_insert" /\ pc'[p] = "done"
              /\ HasKey(usage, UsageKey(local[p]))
              => usage' = usage /\ bills' = bills /\ resp'[p] = FlashUsageExists]_vars

C5_Witness ==
    \E p \in Workers : \E r \in usage :
        /\ pc[p] = "done"
        /\ resp[p] = FlashUsageExists
        /\ UsageKey(r) = UsageKey(local[p])
        /\ r.usage_value # local[p].usage_value

\* C6: every bill has a usage record with its (customer, month, utility
\* type), and a generate_bill request for a key without a usage record, an
\* unknown utility type included, is answered with the no-usage-record
\* message by an ordinary redirect and stores nothing.
C6_BillNeedsUsage ==
    [][/\ \A b \in bills' : HasKey(usage', UsageKey(b))
       /\ \A p \in Workers : \A c \in customers :
          \A m \in {Jan}, u \in {"electric", "water", "solar"} :
              pc[p] = "idle" /\ ~HasKey(usage, <<c, m, u>>) /\ GenerateBillRead(p, c, m, u)
              => /\ pc'[p] = "done"
                 /\ resp'[p] = FlashNoUsage
                 /\ bills' = bills
                 /\ usage' = usage]_vars

C6_Witness ==
    /\ bills # {}
    /\ \E p \in Workers : pc[p] = "done" /\ resp[p] = FlashNoUsage

\* C7: every stored usage record has a month of four digits, a dash and two
\* digits, a usage value that is not negative, and a utility type of the
\* rate schedule.
IsDigit(ch) == CharCode(ch) >= 48 /\ CharCode(ch) <= 57

WellFormedMonth(m) ==
    /\ Len(m) = 7
    /\ \A i \in {1, 2, 3, 4, 6, 7} : IsDigit(m[i])
    /\ m[5] = "-"

C7_StoredRecordsValid ==
    \A r \in usage :
        /\ WellFormedMonth(r.month)
        /\ r.usage_value >= 0
        /\ r.utility_type \in {"electric", "water", "gas"}

\* C8: every bill carries the usage value of the usage record with its key,
\* the rate and base fee of its utility type, and as total a whole number of
\* cents at most half a cent away from base_fee + usage_value * rate_per_unit;
\* 100 kWh of electricity are billed 24.00 and 0 gallons of water 10.00.
C8_BillTotals ==
    \A b \in bills :
        LET exact == b.base_fee * 100 + b.usage_value * b.rate_per_unit
            err == 100 * b.total_amount - exact
        IN  /\ \E r \in usage : UsageKey(r) = UsageKey(b) /\ r.usage_value = b.usage_value
            /\ b.rate_per_unit = DEFAULT_RATES[b.utility_type].rate_per_unit
            /\ b.base_fee = DEFAULT_RATES[b.utility_type].base_fee
            /\ -50 <= err /\ err <= 50
            /\ b.utility_type = "electric" /\ b.usage_value = 1000 => b.total_amount = 2400
            /\ b.utility_type = "water" /\ b.usage_value = 0 => b.total_amount = 1000

C8_Witness ==
    /\ \E b \in bills :
           b.utility_type = "electric" /\ b.usage_value = 1000 /\ b.total_amount = 2400
    /\ \E b \in bills :
           b.utility_type = "water" /\ b.usage_value = 196 /\ b.total_amount = 1010
    /\ \E b \in bills :
           b.utility_type = "gas" /\ b.usage_value = 3 /\ b.total_amount = 1236

\* C9: when a request inserts a row for a key for which another request has
\* also passed its read, the insert succeeds if the key is free and is
\* otherwise rejected, reported with the already-exists message and not
\* tried again; afterwards the table holds exactly one row for the key, so
\* of two such requests on a free key exactly one succeeds.  This holds for
\* usage records and for bills.
C9_RaceResolvedByConstraint ==
    [][\A p, q \in Workers :
          /\ p # q /\ pc[p] = "add_insert" /\ pc'[p] = "done"
             /\ pc[q] \in {"add_insert", "done"} /\ local[q].table = "usage_records"
             /\ UsageKey(local[q]) = UsageKey(local[p])
             => /\ Cardinality({r \in usage' : UsageKey(r) = UsageKey(local[p])}) = 1
                /\ IF HasKey(usage, UsageKey(local[p]))
                   THEN usage' = usage /\ resp'[p] = FlashUsageExists
                   ELSE usage' = usage \cup {UsageRow(local[p])}
                        /\ resp'[p] \in {FlashUsageAdded, FlashAnomaly}
          /\ p # q /\ pc[p] = "bill_insert" /\ pc'[p] = "done"
             /\ pc[q] \in {"bill_insert", "done"} /\ local[q].table = "bills"
             /\ UsageKey(local[q]) = UsageKey(local[p])
             => /\ Cardinality({b \in bills' : UsageKey(b) = UsageKey(local[p])}) = 1
                /\ IF HasKey(bills, UsageKey(local[p]))
                   THEN bills' = bills /\ resp'[p] = FlashBillExists
                   ELSE bills' = bills \cup {BillRow(local[p])}
                        /\ resp'[p] = FlashBillGenerated]_vars

C9_Witness ==
    /\ pc["w1"] = "done" /\ pc["w2"] = "done"
    /\ local["w1"].table = "bills" /\ local["w2"].table = "bills"
    /\ UsageKey(local["w1"]) = UsageKey(local["w2"])
    /\ resp["w1"] = FlashBillGenerated
    /\ resp["w2"] = FlashBillExists
    /\ Cardinality(bills) = 1

====
